---- MODULE Spec2Model ----
(***************************************************************************)
(* A model of shed/sql/common/lib.rs: the Connection handle, the           *)
(* SqlConnections / SqlConnectionsWithSchema / SqlShardedConnections       *)
(* groupings and SqlConnectionsWithSchema::create_schema.                  *)
(*                                                                         *)
(* A Connection is a variant tag plus the identity of the resource it      *)
(* points at (the Arc's pointee for Sqlite, the client for Mysql).  The    *)
(* embedded database behind a resource is the sequence of the statements   *)
(* applied to it, and it has one exclusive-access guard.                   *)
(***************************************************************************)
EXTENDS Integers, Sequences, FiniteSets, TLC

\* Bounds of the model.
MaxRes == 2        \* handles lifted into Connection values before a value is built from them
NumThreads == 2    \* threads calling create_schema
MaxBatchLen == 2   \* statements in one schema_sql batch
MaxClones == 1     \* clones taken of a handle before it is passed on
MaxShards == 2     \* length of the Vec<SqlConnections> that is converted

Stmts == {"a", "b"}
Threads == 1..NumThreads
Resources == 1..MaxRes

RECURSIVE SeqsUpTo(_, _)
SeqsUpTo(S, n) ==
    IF n = 0 THEN {<<>>}
    ELSE LET shorter == SeqsUpTo(S, n - 1)
         IN  shorter \cup {Append(q, x) : q \in {p \in shorter : Len(p) = n - 1}, x \in S}

Batches == SeqsUpTo(Stmts, MaxBatchLen)

Range(q) == {q[i] : i \in DOMAIN q}

---------------------------------------------------------------------------
\* Connection

\* Option<Connection>::None, in the shape of a Connection so that it compares.
None == [variant |-> "None", res |-> 0]

\* impl From<sqlite::SqliteMultithreaded> for Connection: Arc::new(con) is a
\* new allocation r.
FromSqliteMultithreaded(r) == [variant |-> "Sqlite", res |-> r]

\* impl From<mysql::Connection> for Connection.
FromMysqlConnection(r) == [variant |-> "Mysql", res |-> r]

\* Arc::clone: another pointer to the same allocation.
ArcClone(r) == r

\* mysql::Connection::clone: another handle to the same client.
MysqlConnectionClone(r) == r

\* A clone that is a new independent connection.
CloneIndependent(c) == [variant |-> c.variant, res |-> (c.res % MaxRes) + 1]

\* #[derive(Clone)] on Connection: the same variant around a clone of its payload.
Clone(c) ==
    IF c.variant = "Sqlite"
    THEN [variant |-> "Sqlite", res |-> ArcClone(c.res)]
    ELSE [variant |-> "Mysql", res |-> MysqlConnectionClone(c.res)]

RECURSIVE CloneTimes(_, _)
CloneTimes(c, n) == IF n = 0 THEN c ELSE CloneTimes(Clone(c), n - 1)

---------------------------------------------------------------------------
\* SqlConnections, SqlConnectionsWithSchema

\* new_single that opens the read role on another connection.
SqlConnections_new_single_split(connection) ==
    [write_connection       |-> Clone(connection),
     read_connection        |-> CloneIndependent(connection),
     read_master_connection |-> connection]

SqlConnections_new_single(connection) ==
    [write_connection       |-> Clone(connection),
     read_connection        |-> Clone(connection),
     read_master_connection |-> connection]

SqlConnectionsWithSchema_new(connections, schema_connection) ==
    [connections |-> connections, schema_connection |-> schema_connection]

SqlConnectionsWithSchema_new_single(connection) ==
    [connections       |-> SqlConnections_new_single(Clone(connection)),
     schema_connection |-> connection]

---------------------------------------------------------------------------
\* Results: anyhow::Result<()>

NoResult == [tag |-> "none", context |-> "", sql |-> <<>>, cause |-> ""]
Ok == [tag |-> "Ok", context |-> "", sql |-> <<>>, cause |-> ""]

\* The backend's error for statement s.
BackendError(s) == [tag |-> "Err", context |-> "", sql |-> <<>>, cause |-> s]

\* bail!("not expecting schema connection for mysql")
ConfigurationMismatch ==
    [tag |-> "Err", context |-> "not expecting schema connection for mysql",
     sql |-> <<>>, cause |-> ""]

\* .with_context(|| format_err!("failed sql: {}", schema_sql))
with_context(r, schema_sql) ==
    IF r.tag = "Ok" THEN r
    ELSE [tag |-> "Err", context |-> "failed sql: ", sql |-> schema_sql, cause |-> r.cause]

---------------------------------------------------------------------------
\* SqlShardedConnections

EmptySharded ==
    [write_connections |-> <<>>, read_connections |-> <<>>, read_master_connections |-> <<>>]

\* The loop of From<Vec<SqlConnections>>: one push per column per shard.
RECURSIVE from_loop(_, _)
from_loop(shard_connections, acc) ==
    IF shard_connections = <<>> THEN acc
    ELSE LET connections == Head(shard_connections)
         IN  from_loop(Tail(shard_connections),
                 [write_connections       |-> Append(acc.write_connections, connections.write_connection),
                  read_connections        |-> Append(acc.read_connections, connections.read_connection),
                  read_master_connections |-> Append(acc.read_master_connections, connections.read_master_connection)])

\* A transposition that fills the two read columns from each other's vector.
SqlShardedConnections_from_swapped(shard_connections) ==
    LET cols == from_loop(shard_connections, EmptySharded)
    IN  [read_connections        |-> cols.read_master_connections,
         read_master_connections |-> cols.read_connections,
         write_connections       |-> cols.write_connections]

\* A transposition that pushes a read-master connection only when it is not
\* the shard's write connection.
SqlShardedConnections_from_dedup(shard_connections) ==
    LET cols == from_loop(shard_connections, EmptySharded)
    IN  [read_connections        |-> cols.read_connections,
         read_master_connections |->
             SelectSeq(cols.read_master_connections,
                       LAMBDA c : \A i \in DOMAIN shard_connections :
                                     shard_connections[i].write_connection # c),
         write_connections       |-> cols.write_connections]

SqlShardedConnections_from(shard_connections) ==
    LET cols == from_loop(shard_connections, EmptySharded)
    IN  [read_connections        |-> cols.read_connections,
         read_master_connections |-> cols.read_master_connections,
         write_connections       |-> cols.write_connections]

is_empty(self) == Len(self.write_connections) = 0

---------------------------------------------------------------------------
\* create_schema: the match on schema_connection

\* The None arm falling back to the write connection.
create_schema_match_fallback(self) ==
    IF self.schema_connection # None /\ self.schema_connection.variant = "Sqlite"
    THEN [arm |-> "Sqlite", conn |-> self.schema_connection]
    ELSE IF self.schema_connection # None
    THEN [arm |-> "Mysql", conn |-> None]
    ELSE IF self.connections.write_connection.variant = "Sqlite"
    THEN [arm |-> "Sqlite", conn |-> self.connections.write_connection]
    ELSE [arm |-> "None", conn |-> None]

\* The Some(_) arm returning Ok(()).
create_schema_match_lenient(self) ==
    IF self.schema_connection # None /\ self.schema_connection.variant = "Sqlite"
    THEN [arm |-> "Sqlite", conn |-> self.schema_connection]
    ELSE [arm |-> "None", conn |-> None]

\* The Sqlite arm executing on the write connection.
create_schema_match_write(self) ==
    IF self.schema_connection # None /\ self.schema_connection.variant = "Sqlite"
    THEN IF self.connections.write_connection.variant = "Sqlite"
         THEN [arm |-> "Sqlite", conn |-> self.connections.write_connection]
         ELSE [arm |-> "Mysql", conn |-> None]
    ELSE IF self.schema_connection # None
    THEN [arm |-> "Mysql", conn |-> None]
    ELSE [arm |-> "None", conn |-> None]

create_schema_match(self) ==
    IF self.schema_connection # None /\ self.schema_connection.variant = "Sqlite"
    THEN [arm |-> "Sqlite", conn |-> self.schema_connection]
    ELSE IF self.schema_connection # None
    THEN [arm |-> "Mysql", conn |-> None]
    ELSE [arm |-> "None", conn |-> None]

---------------------------------------------------------------------------
\* State

VARIABLES
    handles,    \* the Connections lifted from backend handles; handles[i] points at resource i
    texts,      \* the schema_sql texts the callers of this run pass
    db,         \* db[r]: the statements applied to the embedded database of resource r
    guard,      \* guard[r]: the thread holding resource r's exclusive-access guard, 0 when free
    pc,         \* pc[t]: where thread t is in create_schema
    cur,        \* cur[t]: the call of thread t: self, schema_sql, and the handle self's schema connection was cloned from
    tgt,        \* tgt[t]: the connection bound by the Sqlite arm
    idx,        \* idx[t]: the next statement of the batch
    raw,        \* raw[t]: what execute_batch returned
    res,        \* res[t]: what create_schema returns
    acq,        \* acq[t]: guard acquisitions made by the call
    runs,       \* runs[t]: the execute_batch invocations made by the call
    snap,       \* snap[t]: the database as the call found it when it got the guard
    wrote,      \* wrote[h]: the statements applied through connections cloned from handles[h]
    made,       \* the SqlConnectionsWithSchema last constructed, with its constructor's arguments
    shards,     \* the Vec<SqlConnections> being assembled
    converted,  \* whether shards has been converted
    sharded,    \* the SqlShardedConnections it was converted into
    shardedIn   \* the Vec that was converted

heapVars == <<handles, texts>>
schemaVars == <<db, guard, pc, cur, tgt, idx, raw, res, acq, runs, snap, wrote>>
buildVars == <<made>>
shardVars == <<shards, converted, sharded, shardedIn>>
vars == <<handles, texts, db, guard, pc, cur, tgt, idx, raw, res, acq, runs, snap, wrote,
          made, shards, converted, sharded, shardedIn>>

NoSelf ==
    [connections |-> [write_connection |-> None, read_connection |-> None,
                      read_master_connection |-> None],
     schema_connection |-> None]
NoCall == [self |-> NoSelf, schema_sql |-> <<>>, origin |-> 0]
NoMade == [ctor |-> "none", connection |-> None, single |-> None, value |-> NoSelf]

InitSchema(T) ==
    /\ db = [r \in Resources |-> <<>>]
    /\ guard = [r \in Resources |-> 0]
    /\ pc = [t \in T |-> "idle"]
    /\ cur = [t \in T |-> NoCall]
    /\ tgt = [t \in T |-> None]
    /\ idx = [t \in T |-> 0]
    /\ raw = [t \in T |-> NoResult]
    /\ res = [t \in T |-> NoResult]
    /\ acq = [t \in T |-> 0]
    /\ runs = [t \in T |-> <<>>]
    /\ snap = [t \in T |-> <<>>]
    /\ wrote = [h \in Resources |-> <<>>]

InitData ==
    /\ made = NoMade
    /\ shards = <<>>
    /\ converted = FALSE
    /\ sharded = EmptySharded
    /\ shardedIn = <<>>

\* Two callers, each holding SqlConnectionsWithSchema values of its own.
Callers == {1, 2}

\* An embedded handle beside a networked one; every batch up to MaxBatchLen.
Init ==
    /\ handles = <<FromSqliteMultithreaded(1), FromMysqlConnection(2)>>
    /\ texts = Batches
    /\ InitSchema(Callers)
    /\ InitData

\* The batches the threads that share a handle pass: one that creates two
\* things, one that creates one of them, one whose second statement fails.
SharedTexts == {<<"a", "b">>, <<"b">>, <<"a", "a">>}

\* One embedded handle, clones of it held by every thread.
InitShared ==
    /\ handles = <<FromSqliteMultithreaded(1)>>
    /\ texts = SharedTexts
    /\ InitSchema(Threads)
    /\ InitData

\* Nothing lifted yet.
InitEmpty ==
    /\ handles = <<>>
    /\ texts = {}
    /\ InitSchema(Threads)
    /\ InitData

---------------------------------------------------------------------------
\* Lifting backend handles into Connections

FromSqlite ==
    /\ Len(handles) < MaxRes
    /\ handles' = Append(handles, FromSqliteMultithreaded(Len(handles) + 1))
    /\ UNCHANGED <<texts, schemaVars, buildVars, shardVars>>

FromMysql ==
    /\ Len(handles) < MaxRes
    /\ handles' = Append(handles, FromMysqlConnection(Len(handles) + 1))
    /\ UNCHANGED <<texts, schemaVars, buildVars, shardVars>>

\* The connections a caller can pass on: a handle, or a clone of a clone of it.
Passed(h) == {CloneTimes(handles[h], n) : n \in 0..MaxClones}

---------------------------------------------------------------------------
\* create_schema, one thread's call at a time

\* The SqlConnectionsWithSchema values a caller can hold, each with the handle
\* its schema connection was cloned from (0: it has none).
Selves ==
    UNION {
        {[self |-> SqlConnectionsWithSchema_new_single(c), origin |-> h] : c \in Passed(h)}
        \cup {[self |-> SqlConnectionsWithSchema_new(SqlConnections_new_single(handles[h]), None),
               origin |-> 0]}
        \cup UNION {
               {[self |-> SqlConnectionsWithSchema_new(SqlConnections_new_single(handles[h]), c),
                 origin |-> h2] : c \in Passed(h2)}
               : h2 \in DOMAIN handles}
        : h \in DOMAIN handles}

\* SqliteMultithreaded::get_sqlite_guard: blocks until the guard of r is free, then holds it.
get_sqlite_guard(t, r) ==
    /\ guard[r] = 0
    /\ guard' = [guard EXCEPT ![r] = t]

\* Dropping a guard that thread t holds on r.
drop_guard(t, r) ==
    guard' = [guard EXCEPT ![r] = IF guard[r] = t THEN 0 ELSE guard[r]]

\* The backend rejects a statement that creates what the database already has.
StmtFails(database, stmt) == stmt \in Range(database)

\* The call and its match: the Mysql and None arms return at once.
create_schema(t) ==
    /\ pc[t] = "idle"
    /\ \E s \in Selves, schema_sql \in texts :
          LET m == create_schema_match(s.self)
          IN  /\ cur' = [cur EXCEPT ![t] =
                            [self |-> s.self, schema_sql |-> schema_sql, origin |-> s.origin]]
              /\ tgt' = [tgt EXCEPT ![t] = m.conn]
              /\ pc' = [pc EXCEPT ![t] = IF m.arm = "Sqlite" THEN "lock" ELSE "done"]
              /\ res' = [res EXCEPT ![t] =
                            IF m.arm = "Sqlite" THEN NoResult
                            ELSE IF m.arm = "Mysql" THEN ConfigurationMismatch
                            ELSE Ok]
    /\ UNCHANGED <<heapVars, db, guard, idx, raw, acq, runs, snap, wrote, buildVars, shardVars>>

\* The Sqlite arm calling execute_batch with no guard taken.
create_schema_lock_unguarded(t) ==
    /\ pc[t] = "lock"
    /\ pc' = [pc EXCEPT ![t] = "exec"]
    /\ idx' = [idx EXCEPT ![t] = 1]
    /\ runs' = [runs EXCEPT ![t] = Append(@, [res |-> tgt[t].res, sql |-> cur[t].schema_sql])]
    /\ snap' = [snap EXCEPT ![t] = db[tgt[t].res]]
    /\ UNCHANGED <<heapVars, db, guard, cur, tgt, raw, res, acq, wrote, buildVars, shardVars>>

\* conn.get_sqlite_guard().execute_batch(schema_sql): the guard is taken, the batch handed over.
create_schema_lock(t) ==
    /\ pc[t] = "lock"
    /\ get_sqlite_guard(t, tgt[t].res)
    /\ pc' = [pc EXCEPT ![t] = "exec"]
    /\ idx' = [idx EXCEPT ![t] = 1]
    /\ acq' = [acq EXCEPT ![t] = @ + 1]
    /\ runs' = [runs EXCEPT ![t] = Append(@, [res |-> tgt[t].res, sql |-> cur[t].schema_sql])]
    /\ snap' = [snap EXCEPT ![t] = db[tgt[t].res]]
    /\ UNCHANGED <<heapVars, db, cur, tgt, raw, res, wrote, buildVars, shardVars>>

\* execute_batch: the statements run in order, one at a time, and the batch
\* stops at the first one the backend rejects; what ran before it stays.
execute_batch(t) ==
    /\ pc[t] = "exec"
    /\ LET r == tgt[t].res
           schema_sql == cur[t].schema_sql
           i == idx[t]
       IN  IF i > Len(schema_sql)
           THEN /\ raw' = [raw EXCEPT ![t] = Ok]
                /\ pc' = [pc EXCEPT ![t] = "ctx"]
                /\ UNCHANGED <<db, idx, wrote>>
           ELSE IF StmtFails(db[r], schema_sql[i])
           THEN /\ raw' = [raw EXCEPT ![t] = BackendError(schema_sql[i])]
                /\ pc' = [pc EXCEPT ![t] = "ctx"]
                /\ UNCHANGED <<db, idx, wrote>>
           ELSE /\ db' = [db EXCEPT ![r] = Append(@, schema_sql[i])]
                /\ wrote' = [h \in Resources |->
                                IF h = cur[t].origin THEN Append(wrote[h], schema_sql[i])
                                ELSE wrote[h]]
                /\ idx' = [idx EXCEPT ![t] = i + 1]
                /\ UNCHANGED <<raw, pc>>
    /\ UNCHANGED <<heapVars, guard, cur, tgt, res, acq, runs, snap, buildVars, shardVars>>

\* A return that keeps the guard when the batch failed.
create_schema_return_leaky(t) ==
    /\ pc[t] = "ctx"
    /\ res' = [res EXCEPT ![t] = with_context(raw[t], cur[t].schema_sql)]
    /\ IF raw[t].tag = "Ok" THEN drop_guard(t, tgt[t].res) ELSE UNCHANGED guard
    /\ pc' = [pc EXCEPT ![t] = "done"]
    /\ UNCHANGED <<heapVars, db, cur, tgt, idx, raw, acq, runs, snap, wrote, buildVars, shardVars>>

\* .with_context(..) on what execute_batch returned; the guard, a temporary of
\* the expression, is dropped on the way out.
create_schema_return(t) ==
    /\ pc[t] = "ctx"
    /\ res' = [res EXCEPT ![t] = with_context(raw[t], cur[t].schema_sql)]
    /\ drop_guard(t, tgt[t].res)
    /\ pc' = [pc EXCEPT ![t] = "done"]
    /\ UNCHANGED <<heapVars, db, cur, tgt, idx, raw, acq, runs, snap, wrote, buildVars, shardVars>>

\* The caller takes the result; the thread is free to call again.
Returned(t) ==
    /\ pc[t] = "done"
    /\ pc' = [pc EXCEPT ![t] = "idle"]
    /\ cur' = [cur EXCEPT ![t] = NoCall]
    /\ tgt' = [tgt EXCEPT ![t] = None]
    /\ idx' = [idx EXCEPT ![t] = 0]
    /\ raw' = [raw EXCEPT ![t] = NoResult]
    /\ res' = [res EXCEPT ![t] = NoResult]
    /\ acq' = [acq EXCEPT ![t] = 0]
    /\ runs' = [runs EXCEPT ![t] = <<>>]
    /\ snap' = [snap EXCEPT ![t] = <<>>]
    /\ UNCHANGED <<heapVars, db, guard, wrote, buildVars, shardVars>>

Call == \E t \in DOMAIN pc : create_schema(t)
Lock == \E t \in DOMAIN pc : create_schema_lock(t)
Execute == \E t \in DOMAIN pc : execute_batch(t)
Return == \E t \in DOMAIN pc : create_schema_return(t)
Take == \E t \in DOMAIN pc : Returned(t)

Next ==
    \/ Call
    \/ Lock
    \/ Execute
    \/ Return
    \/ Take

\* Callers with SqlConnectionsWithSchema values of every shape, in both deployments.
Spec == Init /\ [][Next]_vars

\* Threads sharing one embedded handle.
SpecShared == InitShared /\ [][Next]_vars

\* The guard is handed to a waiting thread sooner or later, and a thread that
\* holds it runs.
Fairness ==
    \A t \in Threads :
        /\ SF_vars(create_schema_lock(t))
        /\ WF_vars(execute_batch(t))
        /\ WF_vars(create_schema_return(t))

FairSpec == InitShared /\ [][Next]_vars /\ Fairness

---------------------------------------------------------------------------
\* Building SqlConnectionsWithSchema values

\* Every connection a caller holds.
Held == UNION {Passed(h) : h \in DOMAIN handles}

\* SqlConnectionsWithSchema::new_single(c)
MakeNewSingle ==
    /\ \E c \in Held :
          made' = [ctor |-> "new_single", connection |-> c, single |-> None,
                   value |-> SqlConnectionsWithSchema_new_single(c)]
    /\ UNCHANGED <<heapVars, schemaVars, shardVars>>

\* SqlConnectionsWithSchema::new(SqlConnections::new_single(c), schema_connection)
MakeNewOverSingle ==
    /\ \E c \in Held, schema_connection \in Held \cup {None} :
          made' = [ctor |-> "new", connection |-> schema_connection, single |-> c,
                   value |-> SqlConnectionsWithSchema_new(SqlConnections_new_single(c),
                                                          schema_connection)]
    /\ UNCHANGED <<heapVars, schemaVars, shardVars>>

\* SqlConnectionsWithSchema::new(SqlConnections { .. }, schema_connection): the
\* fields of SqlConnections are public, a caller may fill each on its own.
MakeNewOverLiteral ==
    /\ \E w \in Held, r \in Held, m \in Held, schema_connection \in Held \cup {None} :
          made' = [ctor |-> "new", connection |-> schema_connection, single |-> None,
                   value |-> SqlConnectionsWithSchema_new(
                                 [write_connection |-> w, read_connection |-> r,
                                  read_master_connection |-> m],
                                 schema_connection)]
    /\ UNCHANGED <<heapVars, schemaVars, shardVars>>

NextBuild ==
    \/ FromSqlite
    \/ FromMysql
    \/ MakeNewSingle
    \/ MakeNewOverSingle
    \/ MakeNewOverLiteral

SpecBuild == InitEmpty /\ [][NextBuild]_vars

---------------------------------------------------------------------------
\* Converting a Vec<SqlConnections> into SqlShardedConnections

\* vec.push(SqlConnections::new_single(c))
PushSingle ==
    /\ ~converted
    /\ Len(shards) < MaxShards
    /\ \E c \in Held : shards' = Append(shards, SqlConnections_new_single(c))
    /\ UNCHANGED <<heapVars, schemaVars, buildVars, converted, sharded, shardedIn>>

\* vec.push(SqlConnections { write_connection, read_connection, read_master_connection })
PushLiteral ==
    /\ ~converted
    /\ Len(shards) < MaxShards
    /\ \E w \in Held, r \in Held, m \in Held :
          shards' = Append(shards, [write_connection |-> w, read_connection |-> r,
                                    read_master_connection |-> m])
    /\ UNCHANGED <<heapVars, schemaVars, buildVars, converted, sharded, shardedIn>>

\* SqlShardedConnections::from(vec): the Vec is moved into the conversion.
Convert ==
    /\ ~converted
    /\ sharded' = SqlShardedConnections_from(shards)
    /\ shardedIn' = shards
    /\ converted' = TRUE
    /\ shards' = <<>>
    /\ UNCHANGED <<heapVars, schemaVars, buildVars>>

NextShards ==
    \/ FromSqlite
    \/ FromMysql
    \/ PushSingle
    \/ PushLiteral
    \/ Convert

SpecShards == InitEmpty /\ [][NextShards]_vars

---------------------------------------------------------------------------
\* Properties

\* Thread t took a step of the call it is in after the step.
Stepped(t) == pc'[t] # "idle" /\ (pc'[t] # pc[t] \/ idx'[t] # idx[t])

InCall(t) == pc[t] # "idle"

SchemaOf(t) == cur[t].self.schema_connection

\* C1: create_schema on a value whose schema_connection is None returns Ok at
\* once: the call takes no guard and hands no batch to any connection, and no
\* step of it changes a database or a guard.
C1_NoneIsNoopSuccess ==
    /\ [](\A t \in DOMAIN pc :
            (InCall(t) /\ SchemaOf(t) = None) =>
                /\ pc[t] = "done"
                /\ res[t] = Ok
                /\ acq[t] = 0
                /\ runs[t] = <<>>
                /\ \A r \in Resources : guard[r] # t)
    /\ [][\A t \in DOMAIN pc :
            (Stepped(t) /\ cur'[t].self.schema_connection = None) =>
                (db' = db /\ guard' = guard)]_vars

C1_Witness ==
    \E t \in DOMAIN pc :
        /\ pc[t] = "done"
        /\ SchemaOf(t) = None
        /\ cur[t].self.connections.write_connection.variant = "Sqlite"
        /\ cur[t].schema_sql # <<>>

\* C2: create_schema on a value whose schema_connection is a Mysql connection
\* returns the configuration-mismatch error for every schema_sql, new_single
\* of a Mysql connection included; the call takes no guard, hands no batch to
\* any connection, and no step of it changes a database or a guard.
C2_MysqlSchemaFails ==
    /\ [](\A t \in DOMAIN pc :
            (InCall(t) /\ SchemaOf(t).variant = "Mysql") =>
                /\ pc[t] = "done"
                /\ res[t].tag = "Err"
                /\ res[t].context = "not expecting schema connection for mysql"
                /\ acq[t] = 0
                /\ runs[t] = <<>>
                /\ \A r \in Resources : guard[r] # t)
    /\ [][\A t \in DOMAIN pc :
            (Stepped(t) /\ cur'[t].self.schema_connection.variant = "Mysql") =>
                (db' = db /\ guard' = guard)]_vars

C2_Witness ==
    \E t \in DOMAIN pc, c \in Held :
        /\ pc[t] = "done"
        /\ c.variant = "Mysql"
        /\ cur[t].self = SqlConnectionsWithSchema_new_single(c)
        /\ cur[t].schema_sql # <<>>
        /\ res[t].tag = "Err"

\* C3: create_schema on a value whose schema_connection is Sqlite takes the
\* guard once and hands schema_sql, as given, to that connection's database
\* once; no step of the call changes another database; the call returns Ok
\* exactly when the backend did, and otherwise the backend's error under the
\* context "failed sql: <schema_sql>".
C3_SqliteSchemaExecutesOnce ==
    /\ [](\A t \in DOMAIN pc :
            (InCall(t) /\ SchemaOf(t).variant = "Sqlite") =>
                /\ pc[t] = "lock" => (acq[t] = 0 /\ runs[t] = <<>>)
                /\ pc[t] # "lock" =>
                      /\ acq[t] = 1
                      /\ runs[t] = <<[res |-> SchemaOf(t).res, sql |-> cur[t].schema_sql]>>
                /\ pc[t] = "done" =>
                      /\ res[t].tag = "Ok" <=> raw[t].tag = "Ok"
                      /\ raw[t].tag = "Err" =>
                            /\ res[t].context = "failed sql: "
                            /\ res[t].sql = cur[t].schema_sql
                            /\ res[t].cause = raw[t].cause)
    /\ [][\A t \in DOMAIN pc :
            (Stepped(t) /\ cur'[t].self.schema_connection.variant = "Sqlite") =>
                \A r \in Resources :
                    r # cur'[t].self.schema_connection.res => db'[r] = db[r]]_vars

\* A call on new(new_single(networked), Some(embedded)) that failed at its
\* second statement.
C3_Witness ==
    \E t \in DOMAIN pc :
        /\ pc[t] = "done"
        /\ SchemaOf(t).variant = "Sqlite"
        /\ cur[t].self.connections.write_connection.res # SchemaOf(t).res
        /\ res[t].tag = "Err"
        /\ idx[t] = 2

\* C4: a SqlConnectionsWithSchema built by new or new_single has a
\* schema_connection only if that connection is Sqlite.
C4_SchemaOnlyForSqlite ==
    made.ctor # "none" =>
        (made.value.schema_connection # None =>
            made.value.schema_connection.variant = "Sqlite")

Same(c, d) == c.variant = d.variant /\ c.res = d.res

AllSame(connections, c) ==
    /\ Same(connections.write_connection, c)
    /\ Same(connections.read_connection, c)
    /\ Same(connections.read_master_connection, c)

\* C5: SqlConnections::new_single(c) has c's variant and c's resource in all
\* three roles; SqlConnectionsWithSchema::new_single(c) has that triple and a
\* schema_connection that is present, with c's variant and resource.
C5_NewSingleSharesTheConnection ==
    /\ made.single # None => AllSame(made.value.connections, made.single)
    /\ made.ctor = "new_single" =>
          /\ AllSame(made.value.connections, made.connection)
          /\ made.value.schema_connection # None
          /\ Same(made.value.schema_connection, made.connection)

C5_Witness ==
    /\ made.ctor = "new_single"
    /\ made.connection.variant = "Mysql"
    /\ Len(handles) = 2
    /\ handles[1].variant = "Sqlite"

\* C6: the conversion of a Vec of N SqlConnections has three vectors of
\* length N, and at every index each holds the connection of its own role of
\* the shard at that index.
C6_FromTransposes ==
    converted =>
        /\ Len(sharded.write_connections) = Len(shardedIn)
        /\ Len(sharded.read_connections) = Len(shardedIn)
        /\ Len(sharded.read_master_connections) = Len(shardedIn)
        /\ \A i \in DOMAIN shardedIn :
              /\ Same(sharded.write_connections[i], shardedIn[i].write_connection)
              /\ Same(sharded.read_connections[i], shardedIn[i].read_connection)
              /\ Same(sharded.read_master_connections[i], shardedIn[i].read_master_connection)

\* Two shards that differ, the first with a read connection that is not its
\* read-master connection.
C6_Witness ==
    /\ converted
    /\ Len(shardedIn) = 2
    /\ shardedIn[1] # shardedIn[2]
    /\ shardedIn[1].read_connection # shardedIn[1].read_master_connection
    /\ shardedIn[1].write_connection # shardedIn[1].read_connection

Read(c) == db[c.res]

\* C8: a connection cloned from an embedded handle is Sqlite and points at the
\* handle's resource, and every statement applied through a clone, by
\* create_schema on a value that holds it, is read through the handle.
C8_ClonesShareTheResource ==
    \A h \in DOMAIN handles :
        handles[h].variant = "Sqlite" =>
            /\ Read(handles[h]) = wrote[h]
            /\ \A t \in DOMAIN pc :
                  (InCall(t) /\ cur[t].origin = h) =>
                      /\ SchemaOf(t).variant = "Sqlite"
                      /\ SchemaOf(t).res = handles[h].res
                      /\ Read(SchemaOf(t)) = Read(handles[h])

\* Two callers whose values hold clones of handle 1, each having applied a
\* statement the handle now reads.
C8_Witness ==
    /\ \A t \in DOMAIN pc : pc[t] = "done" /\ cur[t].origin = 1 /\ res[t].tag = "Ok"
    /\ Len(Read(handles[1])) = 2
    /\ \E t \in DOMAIN pc : cur[t].self \in {SqlConnectionsWithSchema_new_single(c) : c \in Passed(1)}

\* The statements of schema_sql that thread t's execute_batch has applied.
Applied(t) == SubSeq(cur[t].schema_sql, 1, idx[t] - 1)

Executing(r) == {t \in DOMAIN pc : pc[t] \in {"exec", "ctx"} /\ tgt[t].res = r}

\* C9: of the threads calling create_schema on clones of one embedded handle,
\* at most one is inside execute_batch at a time, and while one is, the
\* database is what that thread found plus the statements it has applied.
C9_BatchesAreSerialized ==
    /\ \A r \in Resources : Cardinality(Executing(r)) <= 1
    /\ \A t \in DOMAIN pc :
          pc[t] \in {"exec", "ctx"} => db[tgt[t].res] = snap[t] \o Applied(t)

\* One thread halfway through its batch, the others waiting for the guard.
C9_Witness ==
    \E t \in DOMAIN pc :
        /\ pc[t] = "exec"
        /\ idx[t] = 2
        /\ Len(cur[t].schema_sql) = 2
        /\ \A u \in DOMAIN pc \ {t} : pc[u] = "lock" /\ tgt[u].res = tgt[t].res

\* C10: a thread that has returned from create_schema, or is not in it, holds
\* no guard, and every call that waits for the guard returns.
C10_GuardReleasedCallsComplete ==
    /\ [](\A t \in Threads :
            pc[t] \in {"idle", "done"} => \A r \in Resources : guard[r] # t)
    /\ \A t \in Threads : (pc[t] = "lock") ~> (pc[t] = "done")

\* A call that failed has returned, and a later call has gone through.
C10_Witness ==
    \E t \in Threads, u \in Threads :
        /\ pc[t] = "done" /\ res[t].tag = "Err"
        /\ pc[u] = "done" /\ res[u].tag = "Ok"
        /\ runs[u] # <<>>
        /\ snap[u] = <<"a">>

====
